---- MODULE Spec2Model ----
(***************************************************************************)
(* Hallucination / citation verification pipeline.                         *)
(*                                                                         *)
(* The analysis request handler (main.py verify_text) is modelled as a     *)
(* sequential process: extraction and pairing (extractors.py), citation    *)
(* verification (citation_verifier.py), fact verification                  *)
(* (fact_verifier.py), report generation (scorer.py).  Replies of the      *)
(* external services and models are nondeterministic inputs of the steps.  *)
(*                                                                         *)
(* Numbers: character positions are integers; relevance, similarity and    *)
(* evidence scores are kept in hundredths (0.5 is 50); the proximity score *)
(* and the risk score are exact rationals [num, den].                      *)
(***************************************************************************)
EXTENDS Integers, Sequences, FiniteSets, TLC

\* pc: the handler's position; request, claims, citations, pairs,
\* citation_results, fact_results, report: its locals; response: what the
\* caller receives; calls: the outbound calls made for the item verified last;
\* session: the requests.Session of the one CitationVerifier of the process;
\* config: the settings config.py reads from the environment at import;
\* text: the text under analysis and sentences: what the sentence tokenizer
\* and the entity tagger return for it (kept in the extraction runs; the
\* request runs start from the extraction result); replay: an item, the
\* external responses fixed for it and the statuses of its verifications
\* (kept in the replay runs)
VARIABLES pc, request, claims, citations, pairs, citation_results,
          fact_results, calls, report, response, session, config,
          text, sentences, replay

vars == <<pc, request, claims, citations, pairs, citation_results,
          fact_results, calls, report, response, session, config,
          text, sentences, replay>>

----------------------------------------------------------------------------
(* Bounds of the model *)

MaxClaims == 2

MaxCitations == 2

MaxPapers == 1

MaxEvidence == 1

\* claims and citations of one request text, together
MaxItems == 2

\* units of a text under extraction, and sentences the tokenizer returns
MaxTextLen == 5

MaxSentences == 2

\* claims and citations of the result lists handed to the scorer on its own
MaxScoredClaims == 2

MaxScoredCitations == 3

----------------------------------------------------------------------------
(* extractors.py: data shapes produced by extraction *)

\* order in which extract_citations scans its pattern families
CitationTypes == <<"apa", "mla", "ieee", "url", "doi">>

TypeRank(t) == CHOOSE k \in 1..Len(CitationTypes) : CitationTypes[k] = t

TypeSet == {CitationTypes[k] : k \in 1..Len(CitationTypes)}

\* A Claim is identified by its span: the sentence text is text[start:end].
Claim(s, e) == [start_pos |-> s, end_pos |-> e]

\* A Citation: the matched text, the type tag and the match start.
Citation(t, x, s) == [text |-> <<t, x>>, citation_type |-> t, start_pos |-> s]

\* extract_citations appends the matches family by family, and finditer
\* returns the matches of one family left to right without overlap.  Matches
\* of different families never start at the same character (the five
\* patterns of config.py exclude each other at a given start).
ExtractionOrdered(cits) ==
    \A i, j \in 1..Len(cits) :
        i < j =>
            /\ cits[i].start_pos # cits[j].start_pos
            /\ \/ TypeRank(cits[i].citation_type) < TypeRank(cits[j].citation_type)
               \/ /\ cits[i].citation_type = cits[j].citation_type
                  /\ cits[i].start_pos < cits[j].start_pos

\* the first match of a text is named "a": a second name is only needed for
\* a later match of the same family with another text
TextsCanonical(cits) ==
    \A j \in 1..Len(cits) :
        cits[j].text[2] = "b" =>
            \E i \in 1..(j - 1) : cits[i].text = <<cits[j].citation_type, "a">>

SeqsUpTo(S, n) == UNION {[1..k -> S] : k \in 0..n}

----------------------------------------------------------------------------
(* extractors.py: CitationExtractor.pair_claims_with_citations *)

\* the pairing radius of the inner loop's test "distance < 200"
PairRadius == 200

\* float('inf'), the initial min_distance
Infinity == -1

\* a scan that lets a later citation at the same distance replace the match
LessOrEqual(d, m) == m = Infinity \/ d <= m

LessThan(d, m) == m = Infinity \/ d < m

Abs(x) == IF x < 0 THEN -x ELSE x

Distance(citation, claim) == Abs(citation.start_pos - claim.end_pos)

\* The loop over the citations for one claim; best is the loop's state
\* (closest_citation as an index into the citation list, 0 for None).
RECURSIVE ScanCitations(_, _, _, _)
ScanCitations(claim, cits, k, best) ==
    IF k > Len(cits) THEN best
    ELSE LET d == Distance(cits[k], claim)
         IN  IF LessThan(d, best.min_distance) /\ d < PairRadius
             THEN ScanCitations(claim, cits, k + 1,
                                [closest_citation |-> k, min_distance |-> d])
             ELSE ScanCitations(claim, cits, k + 1, best)

\* a linear decay in place of the reciprocal
ProximityScoreLinear(d) == [num |-> PairRadius - d, den |-> PairRadius]

\* proximity_score = 1.0 / (1.0 + min_distance / 100.0), as a rational
ProximityScore(d) == [num |-> 100, den |-> 100 + d]

Zero == [num |-> 0, den |-> 1]

\* a pairing that lets each citation be taken by one claim only
PairOfExclusive(i, cls, cits) ==
    LET best == ScanCitations(cls[i], cits, 1,
                              [closest_citation |-> 0, min_distance |-> Infinity])
        taken == \E j \in 1..(i - 1) :
                    ScanCitations(cls[j], cits, 1,
                        [closest_citation |-> 0, min_distance |-> Infinity]).closest_citation
                    = best.closest_citation
    IN  IF best.closest_citation # 0 /\ ~taken
        THEN [claim |-> i, citation |-> best.closest_citation,
              proximity_score |-> ProximityScore(best.min_distance)]
        ELSE [claim |-> i, citation |-> 0, proximity_score |-> Zero]

PairOf(i, cls, cits) ==
    LET best == ScanCitations(cls[i], cits, 1,
                              [closest_citation |-> 0, min_distance |-> Infinity])
    IN  IF best.closest_citation # 0
        THEN [claim |-> i, citation |-> best.closest_citation,
              proximity_score |-> ProximityScore(best.min_distance)]
        ELSE [claim |-> i, citation |-> 0, proximity_score |-> Zero]

pair_claims_with_citations(cls, cits) ==
    [i \in 1..Len(cls) |-> PairOf(i, cls, cits)]

----------------------------------------------------------------------------
(* citation_verifier.py: CitationVerifier *)

\* relevance values (hundredths) a record's keyword overlap can give
Overlaps == {0, 30, 50, 51}

\* a record returned by a lookup: a dict whose title and abstract overlap the
\* claim's words by `overlap`, a payload that is no dict, or a dict whose
\* title or abstract is not a string (calling lower() on it raises)
Papers == {[kind |-> "record", overlap |-> r] : r \in Overlaps}
              \cup {[kind |-> "not_dict", overlap |-> 0],
                    [kind |-> "bad_fields", overlap |-> 0]}

\* claim_text "" (no claim paired with the citation's text)
NoText == <<>>

Raises == -1

\* a relevance that takes a record for fully relevant when there is no claim
calculate_relevance_full_default(paper, claim_text) ==
    IF claim_text = NoText THEN 100
    ELSE IF paper.kind = "not_dict" THEN 30
    ELSE IF paper.kind = "bad_fields" THEN Raises
    ELSE paper.overlap

\* _calculate_relevance; Raises when the record's fields make it throw
calculate_relevance(paper, claim_text) ==
    IF claim_text = NoText THEN 50
    ELSE IF paper.kind = "not_dict" THEN 30
    ELSE IF paper.kind = "bad_fields" THEN Raises
    ELSE paper.overlap

CitationResult(i, ex, acc, rel, status, det) ==
    [citation |-> i, exists |-> ex, accessible |-> acc, relevance_score |-> rel,
     verification_status |-> status, details |-> det]

\* an outbound call; headers: the headers the program puts on it, which are
\* the session's for the calls of the citation verifier (self.session.get,
\* self.session.head) and none for the calls of the fact verifier
\* (requests.get)
Call(kind, i, endpoint, outcome) ==
    [kind |-> kind, item |-> i, endpoint |-> endpoint, outcome |-> outcome,
     headers |-> IF kind = "citation" THEN session.headers ELSE {}]

\* "verified" if relevance > threshold else "irrelevant"
StatusAbove(rel, threshold) ==
    IF rel > threshold THEN "verified" ELSE "irrelevant"

\* a dispatch that sends numbered citations to the author-year search
StrategyResolvingIeee(citation) ==
    CASE citation.citation_type = "doi" -> "doi"
      [] citation.citation_type = "url" -> "url"
      [] citation.citation_type \in {"apa", "mla", "ieee"} -> "author_year"
      [] OTHER -> "unknown_type"

\* verify_citation: the if-chain on citation.citation_type
Strategy(citation) ==
    CASE citation.citation_type = "doi" -> "doi"
      [] citation.citation_type = "url" -> "url"
      [] citation.citation_type \in {"apa", "mla"} -> "author_year"
      [] citation.citation_type = "ieee" -> "ieee"
      [] OTHER -> "unknown_type"

\* replies of CrossRef to GET works/<doi>
DoiReplies ==
    {[outcome |-> "error"], [outcome |-> "bad_status"], [outcome |-> "not_ok"]}
        \cup {[outcome |-> "ok", paper |-> p] : p \in Papers}

\* a DOI lookup whose failure leaves the citation undecided
verify_doi_undecided(i, claim_text, reply) ==
    IF reply.outcome = "ok" /\ calculate_relevance(reply.paper, claim_text) # Raises
    THEN LET relevance == calculate_relevance(reply.paper, claim_text)
         IN  CitationResult(i, TRUE, TRUE, relevance,
                            StatusAbove(relevance, 50), "crossref")
    ELSE CitationResult(i, FALSE, FALSE, 0, "unknown", "doi_not_found")

\* _verify_doi
verify_doi(i, claim_text, reply) ==
    IF reply.outcome = "ok" /\ calculate_relevance(reply.paper, claim_text) # Raises
    THEN LET relevance == calculate_relevance(reply.paper, claim_text)
         IN  CitationResult(i, TRUE, TRUE, relevance,
                            StatusAbove(relevance, 50), "crossref")
    ELSE CitationResult(i, FALSE, FALSE, 0, "fake", "doi_not_found")

\* replies to HEAD <url> and to GET <url>
HeadReplies == {"error", "bad_status", "ok"}

\* GET: an error, or a page whose first 1000 characters overlap the claim's
\* words (of four letters or more) by `overlap`
GetReplies == {[outcome |-> "error", overlap |-> 0]}
                  \cup {[outcome |-> "ok", overlap |-> r] : r \in Overlaps}

\* _simple_text_relevance
simple_text_relevance(overlap, claim_text) ==
    IF claim_text = NoText THEN 50 ELSE overlap

\* a reachability check that leaves a URL answering with another status
\* than 200 undecided
verify_url_undecided(i, claim_text, head, get) ==
    IF head = "error"
    THEN CitationResult(i, FALSE, FALSE, 0, "fake", "error")
    ELSE IF head = "bad_status"
    THEN CitationResult(i, TRUE, FALSE, 0, "unknown", "url_not_accessible")
    ELSE LET relevance == IF get.outcome = "error" THEN 50
                          ELSE simple_text_relevance(get.overlap, claim_text)
         IN  CitationResult(i, TRUE, TRUE, relevance,
                            StatusAbove(relevance, 30), "url_ok")

\* a reachability check that a host refuses when the request carries the
\* API key the session has gathered
verify_url_keyed(i, claim_text, head, get) ==
    IF head = "error" \/ "x-api-key" \in session.headers
    THEN CitationResult(i, FALSE, FALSE, 0, "fake", "error")
    ELSE IF head = "bad_status"
    THEN CitationResult(i, TRUE, FALSE, 0, "fake", "url_not_accessible")
    ELSE LET relevance == IF get.outcome = "error" THEN 50
                          ELSE simple_text_relevance(get.overlap, claim_text)
         IN  CitationResult(i, TRUE, TRUE, relevance,
                            StatusAbove(relevance, 30), "url_ok")

\* _verify_url
verify_url(i, claim_text, head, get) ==
    IF head = "error"
    THEN CitationResult(i, FALSE, FALSE, 0, "fake", "error")
    ELSE IF head = "bad_status"
    THEN CitationResult(i, TRUE, FALSE, 0, "fake", "url_not_accessible")
    ELSE LET relevance == IF get.outcome = "error" THEN 50
                          ELSE simple_text_relevance(get.overlap, claim_text)
         IN  CitationResult(i, TRUE, TRUE, relevance,
                            StatusAbove(relevance, 30), "url_ok")

\* a candidate of a search reply: `matches` says that its year (and, for
\* Semantic Scholar, one of its authors) matches the citation
Candidates ==
    {[matches |-> FALSE, paper |-> [kind |-> "record", overlap |-> 0]]}
        \cup {[matches |-> TRUE, paper |-> p] : p \in Papers \ {[kind |-> "not_dict", overlap |-> 0]}}

SearchReplies ==
    {[outcome |-> "error", papers |-> <<>>], [outcome |-> "bad_status", papers |-> <<>>]}
        \cup {[outcome |-> "ok", papers |-> ps] : ps \in SeqsUpTo(Candidates, MaxPapers)}

\* the loop over the Semantic Scholar papers; best is <<best_match,
\* best_relevance>> (best_match an index, 0 for None), Raises when
\* _calculate_relevance throws
RECURSIVE BestMatch(_, _, _, _)
BestMatch(papers, claim_text, k, best) ==
    IF k > Len(papers) THEN best
    ELSE IF ~papers[k].matches THEN BestMatch(papers, claim_text, k + 1, best)
    ELSE LET relevance == calculate_relevance(papers[k].paper, claim_text)
         IN  IF relevance = Raises THEN [best_match |-> Raises, best_relevance |-> 0]
             ELSE IF relevance > best.best_relevance
             THEN BestMatch(papers, claim_text, k + 1,
                            [best_match |-> k, best_relevance |-> relevance])
             ELSE BestMatch(papers, claim_text, k + 1, best)

\* the loop over the CrossRef items: the relevance of the first item of the
\* right year whose relevance exceeds 0.3; 0 when there is none, Raises when
\* _calculate_relevance throws before one is found
RECURSIVE FirstRelevant(_, _, _)
FirstRelevant(items, claim_text, k) ==
    IF k > Len(items) THEN 0
    ELSE IF ~items[k].matches THEN FirstRelevant(items, claim_text, k + 1)
    ELSE LET relevance == calculate_relevance(items[k].paper, claim_text)
         IN  IF relevance = Raises THEN Raises
             ELSE IF relevance > 30 THEN relevance
             ELSE FirstRelevant(items, claim_text, k + 1)

NoResult == [citation |-> 0]

\* _verify_author_year, first try block: the result, or NoResult to fall
\* through to the CrossRef search
semantic_scholar_search(i, claim_text, reply) ==
    LET best == IF reply.outcome = "ok"
                THEN BestMatch(reply.papers, claim_text, 1,
                               [best_match |-> 0, best_relevance |-> 0])
                ELSE [best_match |-> 0, best_relevance |-> 0]
    IN  IF best.best_match \notin {0, Raises}
        THEN CitationResult(i, TRUE, TRUE, best.best_relevance,
                            StatusAbove(best.best_relevance, 50), "semantic_scholar")
        ELSE NoResult

\* a fallback that calls a match verified above the loop's own cut of 0.3
crossref_search_lenient(i, claim_text, reply) ==
    LET relevance == IF reply.outcome = "ok"
                     THEN FirstRelevant(reply.papers, claim_text, 1) ELSE 0
    IN  IF relevance \notin {0, Raises}
        THEN CitationResult(i, TRUE, TRUE, relevance,
                            StatusAbove(relevance, 30), "crossref")
        ELSE CitationResult(i, FALSE, FALSE, 0, "fake", "not_found")

\* _verify_author_year, second try block and the final return
crossref_search(i, claim_text, reply) ==
    LET relevance == IF reply.outcome = "ok"
                     THEN FirstRelevant(reply.papers, claim_text, 1) ELSE 0
    IN  IF relevance \notin {0, Raises}
        THEN CitationResult(i, TRUE, TRUE, relevance,
                            StatusAbove(relevance, 50), "crossref")
        ELSE CitationResult(i, FALSE, FALSE, 0, "fake", "not_found")

\* _verify_ieee
verify_ieee(i) ==
    CitationResult(i, FALSE, FALSE, 0, "unknown", "ieee_needs_reference_list")

\* main.py: the claim_texts dict {pair.citation.text: pair.claim.text}; a
\* later pair replaces an earlier one with the same citation text.  The
\* claim's text is stood for by its span.
ClaimTextFor(citation_text, prs, cits, cls) ==
    LET hits == {p \in 1..Len(prs) :
                    prs[p].citation # 0 /\ cits[prs[p].citation].text = citation_text}
    IN  IF hits = {} THEN NoText
        ELSE LET last == CHOOSE p \in hits : \A q \in hits : q <= p
             IN  <<cls[prs[last].claim].start_pos, cls[prs[last].claim].end_pos>>

----------------------------------------------------------------------------
(* Inputs of the analysis: what extraction can return *)

\* spans of claims and starts of citations for the pairing runs
WideClaims == {Claim(0, 100), Claim(100, 199), Claim(150, 200), Claim(250, 400)}

WideStarts == {0, 200, 400}

WideCitations ==
    {Citation(t, "a", s) : t \in {"apa", "ieee", "url"}, s \in WideStarts}

NoRequest == [verify_citations |-> FALSE, verify_facts |-> FALSE]

NoReport == [built |-> FALSE]

NoResponse == [outcome |-> "none"]

\* CitationVerifier.__init__: a new session whose headers carry the
\* User-Agent of the checker
NewSession == [headers |-> {"User-Agent"}]

\* config.py: SEMANTIC_SCHOLAR_API_KEY is "" unless the environment sets it
Config(key_set) == [SEMANTIC_SCHOLAR_API_KEY |-> key_set]

\* no item is being replayed
NoReplay == [runs |-> <<>>]

\* the process after the module-level components of main.py are built
Startup(key_set) ==
    /\ pc = "idle"
    /\ request = NoRequest
    /\ claims = <<>>
    /\ citations = <<>>
    /\ pairs = <<>>
    /\ citation_results = <<>>
    /\ fact_results = <<>>
    /\ calls = <<>>
    /\ report = NoReport
    /\ response = NoResponse
    /\ session = NewSession
    /\ config = Config(key_set)
    /\ text = <<>>
    /\ sentences = <<>>
    /\ replay = NoReplay

\* the default configuration: no API key in the environment
Init == Startup(FALSE)

\* any configuration
InitConfigured == \E key_set \in BOOLEAN : Startup(key_set)

\* TextAnalyzer.analyze on its own: extraction result, then pairing
Analyze ==
    /\ pc = "idle"
    /\ \E cls \in SeqsUpTo(WideClaims, MaxClaims),
          cits \in SeqsUpTo(WideCitations, MaxCitations) :
        /\ ExtractionOrdered(cits)
        /\ claims' = cls
        /\ citations' = cits
        /\ pairs' = pair_claims_with_citations(cls, cits)
    /\ pc' = "analyzed"
    /\ UNCHANGED <<request, citation_results, fact_results, calls, report, response>>
    /\ UNCHANGED <<session, config, text, sentences, replay>>

\* the analysis result goes out of scope
Discard ==
    /\ pc = "analyzed"
    /\ pc' = "idle"
    /\ claims' = <<>>
    /\ citations' = <<>>
    /\ pairs' = <<>>
    /\ text' = <<>>
    /\ sentences' = <<>>
    /\ UNCHANGED <<request, citation_results, fact_results, calls, report, response>>
    /\ UNCHANGED <<session, config, replay>>

NextPairing == Analyze \/ Discard

SpecPairing == Init /\ [][NextPairing]_vars

----------------------------------------------------------------------------
(* extractors.py: extraction from a text *)

\* A text is a sequence of units: the upper-case letter S, the lower-case
\* letter m, a space, the digits 2021, and the two parentheses.  Over these
\* units the words "et al.", "and", "http", "doi:", the bracket of a
\* numbered reference and the fixed phrases of the factual indicators cannot
\* occur.
Units == {"S", "m", " ", "2021", "(", ")"}

\* characters of a unit
Width(u) == IF u = "2021" THEN 4 ELSE 1

RECURSIVE CharLen(_)
CharLen(seq) == IF seq = <<>> THEN 0 ELSE Width(Head(seq)) + CharLen(Tail(seq))

Texts == SeqsUpTo(Units, MaxTextLen)

\* re.IGNORECASE, the flag the apa and mla patterns are compiled with
IgnoreCase == TRUE

\* [A-Z] and [a-z] under the flag
Upper(u, ic) == u = "S" \/ (ic /\ u = "m")

Lower(u, ic) == u = "m" \/ (ic /\ u = "S")

\* the last unit of the longest run of [a-z] from p on (p - 1 if there is none)
LowerRunEnd(t, p, ic) ==
    CHOOSE e \in (p - 1)..Len(t) :
        /\ \A k \in p..e : Lower(t[k], ic)
        /\ e = Len(t) \/ ~Lower(t[e + 1], ic)

\* the last unit of the longest run of \s from p on (p - 1 if there is none)
SpaceRunEnd(t, p) ==
    CHOOSE e \in (p - 1)..Len(t) :
        /\ \A k \in p..e : t[k] = " "
        /\ e = Len(t) \/ t[e + 1] # " "

\* [A-Z][a-z]+ at p: its last unit, 0 without a match.  What follows the
\* name in both patterns is a space or a parenthesis, so only the longest
\* run of letters can match.
NameEnd(t, p, ic) ==
    IF p <= Len(t) /\ Upper(t[p], ic) /\ LowerRunEnd(t, p + 1, ic) >= p + 1
    THEN LowerRunEnd(t, p + 1, ic)
    ELSE 0

\* CITATION_PATTERNS["mla"] at p: name, \s+, \d{4}
MlaEnd(t, p, ic) ==
    LET e == NameEnd(t, p, ic)
        f == SpaceRunEnd(t, e + 1)
    IN  IF e # 0 /\ f >= e + 1 /\ f + 1 <= Len(t) /\ t[f + 1] = "2021"
        THEN f + 1
        ELSE 0

\* CITATION_PATTERNS["apa"] at p: name, \s*, \(, \d{4}, \)
ApaEnd(t, p, ic) ==
    LET e == NameEnd(t, p, ic)
        f == SpaceRunEnd(t, e + 1)
    IN  IF e # 0 /\ f + 3 <= Len(t)
           /\ t[f + 1] = "(" /\ t[f + 2] = "2021" /\ t[f + 3] = ")"
        THEN f + 3
        ELSE 0

MatchEnd(family, t, p, ic) ==
    IF family = "apa" THEN ApaEnd(t, p, ic) ELSE MlaEnd(t, p, ic)

\* pattern.finditer(text): the matches from left to right, each search
\* starting where the last match ended
RECURSIVE finditer(_, _, _, _)
finditer(family, t, p, ic) ==
    IF p > Len(t) THEN <<>>
    ELSE LET e == MatchEnd(family, t, p, ic)
         IN  IF e = 0 THEN finditer(family, t, p + 1, ic)
             ELSE <<[first |-> p, last |-> e]>> \o finditer(family, t, e + 1, ic)

\* the Citations of one family: text match.group(0), start_pos match.start()
CitationsOf(family, t, ic) ==
    LET matches == finditer(family, t, 1, ic)
    IN  [k \in 1..Len(matches) |->
            Citation(family, SubSeq(t, matches[k].first, matches[k].last),
                     CharLen(SubSeq(t, 1, matches[k].first - 1)))]

\* extract_citations: the apa matches, then the mla matches; the ieee, url
\* and doi patterns match nothing in a text of these units
extract_citations(t) ==
    CitationsOf("apa", t, IgnoreCase) \o CitationsOf("mla", t, IgnoreCase)

\* the places where the tokenizer can end a sentence
SpacePositions(t) == {k \in 1..Len(t) : t[k] = " "}

\* the sentences between the cuts; the space at a cut belongs to none
RECURSIVE Segments(_, _, _)
Segments(t, from, cuts) ==
    IF cuts = {}
    THEN IF from <= Len(t) THEN <<SubSeq(t, from, Len(t))>> ELSE <<>>
    ELSE LET c == CHOOSE x \in cuts : \A y \in cuts : x <= y
         IN  (IF c > from THEN <<SubSeq(t, from, c - 1)>> ELSE <<>>)
                 \o Segments(t, c + 1, cuts \ {c})

\* whitespace normalisation: a run of spaces becomes one space
RECURSIVE Collapse(_)
Collapse(seq) ==
    IF Len(seq) <= 1 THEN seq
    ELSE IF seq[1] = " " /\ seq[2] = " " THEN Collapse(Tail(seq))
    ELSE <<seq[1]>> \o Collapse(Tail(seq))

\* the factual indicators: of the eight patterns only \d{4} can match
IsFactual(sentence) == \E k \in 1..Len(sentence) : sentence[k] = "2021"

\* text.find(sentence), in characters
Find(t, sub) ==
    LET hits == {i \in 1..(Len(t) - Len(sub) + 1) :
                    SubSeq(t, i, i + Len(sub) - 1) = sub}
    IN  IF hits = {} THEN -1
        ELSE CharLen(SubSeq(t, 1, (CHOOSE i \in hits : \A j \in hits : i <= j) - 1))

\* a confidence that is raised by either check
ConfidenceEither(is_factual, has_entities) ==
    IF is_factual \/ has_entities THEN 70 ELSE 50

\* confidence=0.7 if (is_factual and has_entities) else 0.5, in hundredths
Confidence(is_factual, has_entities) ==
    IF is_factual /\ has_entities THEN 70 ELSE 50

\* extract_claims: the loop over the sentences from the k-th on
RECURSIVE extract_claims(_, _, _)
extract_claims(t, sents, k) ==
    IF k > Len(sents) THEN <<>>
    ELSE LET sentence == sents[k].sentence
             is_factual == IsFactual(sentence)
             has_entities == sents[k].has_entities
             start_pos == Find(t, sentence)
         IN  (IF is_factual \/ has_entities
              THEN <<[text |-> sentence,
                      start_pos |-> start_pos,
                      end_pos |-> start_pos + CharLen(sentence),
                      confidence |-> Confidence(is_factual, has_entities)]>>
              ELSE <<>>)
                 \o extract_claims(t, sents, k + 1)

\* TextAnalyzer.analyze on a text: the tokenizer cuts the text at spaces and
\* returns the sentences as they stand or with their whitespace normalised,
\* the tagger says per sentence whether it has a named entity
AnalyzeText ==
    /\ pc = "idle"
    /\ \E t \in Texts, normalised \in BOOLEAN :
        \E cuts \in {c \in SUBSET SpacePositions(t) : Cardinality(c) < MaxSentences} :
            LET segments == Segments(t, 1, cuts)
            IN  \E entities \in [1..Len(segments) -> BOOLEAN] :
                    /\ text' = t
                    /\ sentences' =
                           [k \in 1..Len(segments) |->
                               [sentence |-> IF normalised THEN Collapse(segments[k])
                                             ELSE segments[k],
                                has_entities |-> entities[k]]]
                    /\ claims' = extract_claims(t, sentences', 1)
                    /\ citations' = extract_citations(t)
                    /\ pairs' = pair_claims_with_citations(claims', citations')
    /\ pc' = "analyzed"
    /\ UNCHANGED <<request, citation_results, fact_results, calls, report, response>>
    /\ UNCHANGED <<session, config, replay>>

NextExtract == AnalyzeText \/ Discard

SpecExtract == Init /\ [][NextExtract]_vars

----------------------------------------------------------------------------
(* main.py: verify_text, steps 1 and 2 *)

\* spans of claims and starts of citations for the request runs
RequestClaims == {Claim(0, 100), Claim(100, 200)}

\* sentences come in text order; a sentence repeated in the text is found
\* at its first occurrence both times
InTextOrder(cls) ==
    \A i, j \in 1..Len(cls) : i < j => cls[i].start_pos <= cls[j].start_pos

RequestStarts == {150, 400}

RequestCitations ==
    {Citation(t, x, s) : t \in TypeSet, x \in {"a", "b"}, s \in RequestStarts}

\* Step 1: a request arrives; extraction and pairing
Extract ==
    /\ pc = "idle"
    /\ \E vc, vf \in BOOLEAN :
        request' = [verify_citations |-> vc, verify_facts |-> vf]
    /\ \E cls \in SeqsUpTo(RequestClaims, MaxClaims),
          cits \in SeqsUpTo(RequestCitations, MaxCitations) :
        /\ Len(cls) + Len(cits) <= MaxItems
        /\ InTextOrder(cls)
        /\ ExtractionOrdered(cits)
        /\ TextsCanonical(cits)
        /\ claims' = cls
        /\ citations' = cits
        /\ pairs' = pair_claims_with_citations(cls, cits)
    /\ pc' = "citations"
    /\ UNCHANGED <<citation_results, fact_results, calls, report, response>>
    /\ UNCHANGED <<session, config, text, sentences, replay>>

CitationsEnabled == request.verify_citations /\ citations # <<>>

\* the citation the loop of BatchCitationVerifier.verify_citations is at
CurrentCitation == Len(citation_results) + 1

CurrentClaimText ==
    ClaimTextFor(citations[CurrentCitation].text, pairs, citations, claims)

AtCitation(strategy) ==
    /\ pc = "citations"
    /\ CitationsEnabled
    /\ CurrentCitation <= Len(citations)
    /\ Strategy(citations[CurrentCitation]) = strategy

\* results.append(result), then the loop goes on or verify_citations returns
AppendCitationResult(result) ==
    /\ citation_results' = Append(citation_results, result)
    /\ pc' = IF CurrentCitation = Len(citations) THEN "facts" ELSE "citations"

\* Outcome of a call as the log keeps it: "error" for an exception raised in
\* the call or while its reply is handled, "bad_status" for a reply other
\* than 200, "not_ok" for a CrossRef reply whose status field is not ok,
\* "found" for a record of the citation (for a search: a candidate of the
\* right year and author), "empty" for a search without such a candidate,
\* "ok" for a page.
DoiOutcome(reply, claim_text) ==
    IF reply.outcome # "ok" THEN reply.outcome
    ELSE IF calculate_relevance(reply.paper, claim_text) = Raises THEN "error"
    ELSE "found"

SearchOutcome(reply, raised) ==
    IF reply.outcome # "ok" THEN reply.outcome
    ELSE IF raised THEN "error"
    ELSE IF \E k \in 1..Len(reply.papers) : reply.papers[k].matches THEN "found"
    ELSE "empty"

\* a skipped step that leaves the result list empty
SkippedCitationResultsNone(cits) == <<>>

\* the list comprehension of the else branch of step 2
SkippedCitationResults(cits) ==
    [i \in 1..Len(cits) |->
        CitationResult(i, FALSE, FALSE, 0, "unknown", "skipped")]

\* Step 2, else branch: a placeholder result per citation
SkipCitations ==
    /\ pc = "citations"
    /\ ~CitationsEnabled
    /\ citation_results' = SkippedCitationResults(citations)
    /\ pc' = "facts"
    /\ UNCHANGED <<request, claims, citations, pairs, fact_results, calls,
                   report, response>>
    /\ UNCHANGED <<session, config, text, sentences, replay>>

VerifyDoi ==
    /\ AtCitation("doi")
    /\ \E reply \in DoiReplies :
        /\ AppendCitationResult(verify_doi(CurrentCitation, CurrentClaimText, reply))
        /\ calls' = <<Call("citation", CurrentCitation, "crossref_works",
                            DoiOutcome(reply, CurrentClaimText))>>
    /\ UNCHANGED <<request, claims, citations, pairs, fact_results, report, response>>
    /\ UNCHANGED <<session, config, text, sentences, replay>>

VerifyUrl ==
    /\ AtCitation("url")
    /\ \E head \in HeadReplies, get \in GetReplies :
        /\ AppendCitationResult(verify_url(CurrentCitation, CurrentClaimText, head, get))
        /\ head # "ok" => get = [outcome |-> "error", overlap |-> 0]
        /\ calls' = IF head = "ok"
                    THEN <<Call("citation", CurrentCitation, "head", head),
                           Call("citation", CurrentCitation, "get", get.outcome)>>
                    ELSE <<Call("citation", CurrentCitation, "head", head)>>
    /\ UNCHANGED <<request, claims, citations, pairs, fact_results, report, response>>
    /\ UNCHANGED <<session, config, text, sentences, replay>>

\* _verify_author_year: "if SEMANTIC_SCHOLAR_API_KEY: self.session.headers
\* .update(...)", ahead of the search request
WithApiKey(sess, conf) ==
    IF conf.SEMANTIC_SCHOLAR_API_KEY
    THEN [sess EXCEPT !.headers = @ \cup {"x-api-key"}]
    ELSE sess

VerifyAuthorYear ==
    /\ AtCitation("author_year")
    /\ session' = WithApiKey(session, config)
    /\ UNCHANGED <<config, text, sentences, replay>>
    /\ \E reply \in SearchReplies :
        LET result == semantic_scholar_search(CurrentCitation, CurrentClaimText, reply)
            raised == reply.outcome = "ok" /\
                      BestMatch(reply.papers, CurrentClaimText, 1,
                                [best_match |-> 0, best_relevance |-> 0]).best_match = Raises
        IN  /\ calls' = <<[Call("citation", CurrentCitation, "semantic_scholar",
                                 SearchOutcome(reply, raised))
                                EXCEPT !.headers = WithApiKey(session, config).headers]>>
            /\ IF result = NoResult
               THEN pc' = "crossref_fallback" /\ UNCHANGED citation_results
               ELSE AppendCitationResult(result)
    /\ UNCHANGED <<request, claims, citations, pairs, fact_results, report, response>>

CrossRefFallback ==
    /\ pc = "crossref_fallback"
    /\ \E reply \in SearchReplies :
        /\ AppendCitationResult(crossref_search(CurrentCitation, CurrentClaimText, reply))
        /\ calls' = Append(calls, Call("citation", CurrentCitation, "crossref_search",
                               SearchOutcome(reply,
                                   reply.outcome = "ok" /\
                                   FirstRelevant(reply.papers, CurrentClaimText, 1) = Raises)))
    /\ UNCHANGED <<request, claims, citations, pairs, fact_results, report, response>>
    /\ UNCHANGED <<session, config, text, sentences, replay>>

VerifyIeee ==
    /\ AtCitation("ieee")
    /\ AppendCitationResult(verify_ieee(CurrentCitation))
    /\ calls' = <<>>
    /\ UNCHANGED <<request, claims, citations, pairs, fact_results, report, response>>
    /\ UNCHANGED <<session, config, text, sentences, replay>>

----------------------------------------------------------------------------
(* fact_verifier.py: FactVerifier *)

\* Evidence scores are kept in units of 1/60000, so that
\* 0.6 * mean + 0.4 * max of up to six similarities given in hundredths is
\* an integer: one hundredth is 600 units.
Hundredth == 600

\* cosine similarities (hundredths) the embedding model can return
Similarities == {40, 70, 90}

\* an evidence record: whether it has text, and for a record with text the
\* classifier's verdict (contradiction probability > 0.5) and the similarity
Sources ==
    {[has_text |-> FALSE, contradicts |-> FALSE, similarity |-> 0]}
        \cup {[has_text |-> TRUE, contradicts |-> c, similarity |-> x] :
                c \in BOOLEAN, x \in Similarities}

Min(a, b) == IF a < b THEN a ELSE b

Take(seq, n) == SubSeq(seq, 1, Min(n, Len(seq)))

\* replies of the Wikipedia summary endpoint and of the search endpoint
SummaryReplies ==
    {[outcome |-> "error", pages |-> <<>>], [outcome |-> "bad_status", pages |-> <<>>]}
        \cup {[outcome |-> "ok", pages |-> <<x>>] : x \in Sources}

PageSearchReplies ==
    {[outcome |-> "error", pages |-> <<>>], [outcome |-> "bad_status", pages |-> <<>>]}
        \cup {[outcome |-> "ok", pages |-> ps] : ps \in SeqsUpTo(Sources, MaxEvidence)}

\* _search_wikipedia: the summary, else the first three pages of the search
search_wikipedia(summary, search) ==
    IF summary.outcome = "ok" THEN summary.pages
    ELSE IF search.outcome = "ok" THEN Take(search.pages, 3)
    ELSE <<>>

\* _retrieve_evidence: Wikipedia, then _search_scholar (always empty), top 5
retrieve_evidence(summary, search) == Take(search_wikipedia(summary, search), 5)

WithText(sources) == {k \in 1..Len(sources) : sources[k].has_text}

\* _check_contradiction; nli_raises: the tokenizer or the model throws
check_contradiction(sources, nli_raises) ==
    IF nli_raises THEN FALSE
    ELSE \E k \in WithText(sources) : sources[k].contradicts

RECURSIVE SumOver(_, _)
SumOver(sources, set) ==
    IF set = {} THEN 0
    ELSE LET k == CHOOSE x \in set : TRUE
         IN  sources[k].similarity + SumOver(sources, set \ {k})

MaxOver(sources, set) ==
    CHOOSE m \in {sources[k].similarity : k \in set} :
        \A k \in set : sources[k].similarity <= m

\* _calculate_evidence_score: avg_similarity * 0.6 + max_similarity * 0.4
calculate_evidence_score(sources) ==
    LET set == WithText(sources)
    IN  IF set = {} THEN 0
        ELSE (360 * SumOver(sources, set)) \div Cardinality(set)
                 + 240 * MaxOver(sources, set)

FactResult(i, sup, con, score, status, n, det) ==
    [claim |-> i, supported |-> sup, contradiction |-> con, evidence_score |-> score,
     verification_status |-> status, evidence_sources |-> n,
     contradiction_details |-> det]

\* a classification that looks at the evidence score first
FactStatusScoreFirst(has_contradiction, evidence_score) ==
    IF evidence_score > 70 * Hundredth THEN "supported"
    ELSE IF has_contradiction THEN "contradicted"
    ELSE IF evidence_score > 40 * Hundredth THEN "weak"
    ELSE "no_evidence"

\* verify_claim: "Determine verification status"
FactStatus(has_contradiction, evidence_score) ==
    IF has_contradiction THEN "contradicted"
    ELSE IF evidence_score > 70 * Hundredth THEN "supported"
    ELSE IF evidence_score > 40 * Hundredth THEN "weak"
    ELSE "no_evidence"

\* verify_claim, when the embedding model does not throw
verify_claim(i, sources, nli_raises) ==
    IF sources = <<>>
    THEN FactResult(i, FALSE, FALSE, 0, "no_evidence", 0, "none")
    ELSE LET has_contradiction == check_contradiction(sources, nli_raises)
             evidence_score == calculate_evidence_score(sources)
         IN  FactResult(i,
                        evidence_score > 50 * Hundredth /\ ~has_contradiction,
                        has_contradiction, evidence_score,
                        FactStatus(has_contradiction, evidence_score),
                        Len(sources),
                        IF has_contradiction THEN "contradiction_found" ELSE "none")

----------------------------------------------------------------------------
(* main.py: verify_text, step 3 *)

FactsEnabled == request.verify_facts /\ claims # <<>>

\* the claim the loop of BatchFactVerifier.verify_claims is at
CurrentClaim == Len(fact_results) + 1

\* placeholders built from the last claim to the first
SkippedFactResultsReversed(cls) ==
    [i \in 1..Len(cls) |->
        FactResult(Len(cls) + 1 - i, FALSE, FALSE, 0, "unknown", 0, "disabled")]

\* the list comprehension of the else branch of step 3
SkippedFactResults(cls) ==
    [i \in 1..Len(cls) |->
        FactResult(i, FALSE, FALSE, 0, "unknown", 0, "disabled")]

\* Step 3, else branch: a placeholder result per claim
SkipFacts ==
    /\ pc = "facts"
    /\ ~FactsEnabled
    /\ fact_results' = SkippedFactResults(claims)
    /\ pc' = "report"
    /\ UNCHANGED <<request, claims, citations, pairs, citation_results, calls,
                   report, response>>
    /\ UNCHANGED <<session, config, text, sentences, replay>>

\* the calls of one verify_claim, in order
ClaimCalls(i, summary, search, sources, nli_raises, encode_raises) ==
    <<Call("claim", i, "wikipedia_summary", summary.outcome)>>
    \o (IF summary.outcome = "ok" THEN <<>>
        ELSE <<Call("claim", i, "wikipedia_search", search.outcome)>>)
    \o (IF WithText(sources) = {} THEN <<>>
        ELSE <<Call("claim", i, "nli", IF nli_raises THEN "error" ELSE "ok")>>)
    \o (IF sources = <<>> THEN <<>>
        ELSE <<Call("claim", i, "embedding", IF encode_raises THEN "error" ELSE "ok")>>)

\* a failure reply that hands over the results built so far
HTTPExceptionWithResults ==
    [outcome |-> "error", status |-> 500,
     body |-> [built |-> FALSE, citation_results |-> citation_results,
               fact_results |-> fact_results]]

\* the except clause of verify_text: HTTPException(status_code=500, ...)
HTTPException == [outcome |-> "error", status |-> 500]

\* one iteration of verify_claims: retrieval, classifier, similarity.  An
\* exception of the embedding model is caught nowhere below verify_text,
\* whose handler turns it into HTTP 500.
VerifyClaim ==
    /\ pc = "facts"
    /\ FactsEnabled
    /\ CurrentClaim <= Len(claims)
    /\ \E summary \in SummaryReplies, search \in PageSearchReplies,
          nli_raises, encode_raises \in BOOLEAN :
        LET sources == retrieve_evidence(summary, search)
        IN  /\ summary.outcome = "ok" => search = [outcome |-> "error", pages |-> <<>>]
            /\ WithText(sources) = {} => ~nli_raises
            /\ sources = <<>> => ~encode_raises
            /\ calls' = ClaimCalls(CurrentClaim, summary, search, sources,
                                   nli_raises, encode_raises)
            /\ IF encode_raises
               THEN /\ pc' = "failed"
                    /\ response' = HTTPException
                    /\ UNCHANGED fact_results
               ELSE /\ fact_results' =
                           Append(fact_results,
                                  verify_claim(CurrentClaim, sources, nli_raises))
                    /\ pc' = IF CurrentClaim = Len(claims) THEN "report" ELSE "facts"
                    /\ UNCHANGED response
    /\ UNCHANGED <<request, claims, citations, pairs, citation_results, report>>
    /\ UNCHANGED <<session, config, text, sentences, replay>>

----------------------------------------------------------------------------
(* scorer.py: HallucinationScorer *)

IsFake(r) == r.verification_status = "fake"

\* a count of every result that is not accessible, whatever its type
IsBrokenLinkAnyType(cits, r) == ~r.accessible

IsBrokenLink(cits, r) == cits[r.citation].citation_type = "url" /\ ~r.accessible

\* a count that takes a claim left unknown for unverified
IsUnverifiedOrUnknown(r) ==
    r.verification_status \in {"no_evidence", "weak", "unknown"}

IsUnverified(r) == r.verification_status \in {"no_evidence", "weak"}

IsContradicted(r) == r.contradiction

IsSupported(r) == r.verification_status = "supported"

\* SCORE_WEIGHTS and the contradiction weight, in tenths
WeightUnverified == 4

WeightFake == 4

WeightBroken == 2

WeightContradicted == 3

\* RISK_THRESHOLDS
ThresholdLow == 30

ThresholdMedium == 60

\* a score without the cap at 100
calculate_risk_score_uncapped(unverified, fake, broken, contradicted, total_claims) ==
    IF total_claims = 0 THEN Zero
    ELSE [num |-> 10 * (WeightUnverified * unverified + WeightFake * fake
                        + WeightBroken * broken + WeightContradicted * contradicted),
          den |-> total_claims]

\* a score that counts a text without claims as a text with one claim
calculate_risk_score_unguarded(unverified, fake, broken, contradicted, total_claims) ==
    LET total == IF total_claims = 0 THEN 1 ELSE total_claims
        num == 10 * (WeightUnverified * unverified + WeightFake * fake
                     + WeightBroken * broken + WeightContradicted * contradicted)
    IN  IF num >= 100 * total THEN [num |-> 100, den |-> 1]
        ELSE [num |-> num, den |-> total]

\* _calculate_risk_score, as a rational: the weighted sum of the four ratios
\* (each count / total_claims * 100), capped at 100
calculate_risk_score(unverified, fake, broken, contradicted, total_claims) ==
    IF total_claims = 0 THEN Zero
    ELSE LET num == 10 * (WeightUnverified * unverified + WeightFake * fake
                          + WeightBroken * broken + WeightContradicted * contradicted)
         IN  IF num >= 100 * total_claims THEN [num |-> 100, den |-> 1]
             ELSE [num |-> num, den |-> total_claims]

\* a tag whose boundaries belong to the upper tag
OverallRiskStrict(risk_score) ==
    IF risk_score.num < ThresholdLow * risk_score.den THEN "low"
    ELSE IF risk_score.num < ThresholdMedium * risk_score.den THEN "medium"
    ELSE "high"

\* generate_report: "Determine overall risk level"
OverallRisk(risk_score) ==
    IF risk_score.num <= ThresholdLow * risk_score.den THEN "low"
    ELSE IF risk_score.num <= ThresholdMedium * risk_score.den THEN "medium"
    ELSE "high"

Issue(type, severity, kind, item) ==
    [type |-> type, severity |-> severity, kind |-> kind, item |-> item]

\* a chain that looks at the reachability of a URL first
CitationIssueLinkFirst(cits, r) ==
    IF cits[r.citation].citation_type = "url" /\ ~r.accessible
    THEN <<Issue("broken_link", "medium", "citation", r.citation)>>
    ELSE IF r.verification_status = "fake"
    THEN <<Issue("fake_citation", "high", "citation", r.citation)>>
    ELSE IF r.verification_status = "irrelevant"
    THEN <<Issue("irrelevant_citation", "medium", "citation", r.citation)>>
    ELSE <<>>

\* three independent tests in place of the chain
CitationIssueAll(cits, r) ==
    (IF r.verification_status = "fake"
     THEN <<Issue("fake_citation", "high", "citation", r.citation)>> ELSE <<>>)
    \o (IF r.verification_status = "irrelevant"
        THEN <<Issue("irrelevant_citation", "medium", "citation", r.citation)>>
        ELSE <<>>)
    \o (IF cits[r.citation].citation_type = "url" /\ ~r.accessible
        THEN <<Issue("broken_link", "medium", "citation", r.citation)>> ELSE <<>>)

\* _generate_issues: the if-chain for one citation result
CitationIssue(cits, r) ==
    IF r.verification_status = "fake"
    THEN <<Issue("fake_citation", "high", "citation", r.citation)>>
    ELSE IF r.verification_status = "irrelevant"
    THEN <<Issue("irrelevant_citation", "medium", "citation", r.citation)>>
    ELSE IF cits[r.citation].citation_type = "url" /\ ~r.accessible
    THEN <<Issue("broken_link", "medium", "citation", r.citation)>>
    ELSE <<>>

\* a chain on the status alone, without the test of the contradiction flag
FactIssueByStatus(r) ==
    IF r.verification_status = "no_evidence"
    THEN <<Issue("unverified_claim", "medium", "claim", r.claim)>>
    ELSE IF r.verification_status = "weak"
    THEN <<Issue("weak_evidence", "low", "claim", r.claim)>>
    ELSE <<>>

\* _generate_issues: the if-chain for one fact result
FactIssue(r) ==
    IF r.contradiction
    THEN <<Issue("contradicted_claim", "high", "claim", r.claim)>>
    ELSE IF r.verification_status = "no_evidence"
    THEN <<Issue("unverified_claim", "medium", "claim", r.claim)>>
    ELSE IF r.verification_status = "weak"
    THEN <<Issue("weak_evidence", "low", "claim", r.claim)>>
    ELSE <<>>

RECURSIVE CitationIssues(_, _, _)
CitationIssues(cits, results, k) ==
    IF k > Len(results) THEN <<>>
    ELSE CitationIssue(cits, results[k]) \o CitationIssues(cits, results, k + 1)

RECURSIVE FactIssues(_, _)
FactIssues(results, k) ==
    IF k > Len(results) THEN <<>>
    ELSE FactIssue(results[k]) \o FactIssues(results, k + 1)

\* an issue list that starts with the claims
generate_issues_facts_first(cits, cresults, fresults) ==
    FactIssues(fresults, 1) \o CitationIssues(cits, cresults, 1)

\* _generate_issues
generate_issues(cits, cresults, fresults) ==
    CitationIssues(cits, cresults, 1) \o FactIssues(fresults, 1)

\* generate_report
generate_report(cls, cits, cresults, fresults) ==
    LET fake_citations == Cardinality({k \in 1..Len(cresults) : IsFake(cresults[k])})
        broken_links == Cardinality({k \in 1..Len(cresults) :
                                        IsBrokenLink(cits, cresults[k])})
        unverified_claims ==
            Cardinality({k \in 1..Len(fresults) : IsUnverified(fresults[k])})
        contradicted_claims ==
            Cardinality({k \in 1..Len(fresults) : IsContradicted(fresults[k])})
        verified_claims ==
            Cardinality({k \in 1..Len(fresults) : IsSupported(fresults[k])})
        risk_score == calculate_risk_score(unverified_claims, fake_citations,
                                           broken_links, contradicted_claims, Len(cls))
    IN  [built |-> TRUE,
         overall_risk |-> OverallRisk(risk_score),
         risk_score |-> risk_score,
         total_claims |-> Len(cls),
         total_citations |-> Len(cits),
         verified_claims |-> verified_claims,
         fake_citations |-> fake_citations,
         unverified_claims |-> unverified_claims,
         contradicted_claims |-> contradicted_claims,
         broken_links |-> broken_links,
         issues |-> generate_issues(cits, cresults, fresults),
         detailed_results |->
            [citation_verifications |->
                [k \in 1..Len(cresults) |->
                    [citation |-> cits[cresults[k].citation].text,
                     status |-> cresults[k].verification_status,
                     exists |-> cresults[k].exists,
                     accessible |-> cresults[k].accessible,
                     relevance |-> cresults[k].relevance_score]],
             fact_verifications |->
                [k \in 1..Len(fresults) |->
                    [claim |-> cls[fresults[k].claim],
                     status |-> fresults[k].verification_status,
                     supported |-> fresults[k].supported,
                     contradicted |-> fresults[k].contradiction,
                     evidence_score |-> fresults[k].evidence_score]]]]

----------------------------------------------------------------------------
(* main.py: verify_text, step 4 and the reply *)

\* Step 4 and the conversion of the report into the response
Respond ==
    /\ pc = "report"
    /\ report' = generate_report(claims, citations, citation_results, fact_results)
    /\ response' = [outcome |-> "report", status |-> 200, body |-> report']
    /\ pc' = "done"
    /\ UNCHANGED <<request, claims, citations, pairs, citation_results,
                   fact_results, calls>>
    /\ UNCHANGED <<session, config, text, sentences, replay>>

\* the handler has returned or raised; its locals are gone
Finish ==
    /\ pc \in {"done", "failed"}
    /\ pc' = "idle"
    /\ request' = NoRequest
    /\ claims' = <<>>
    /\ citations' = <<>>
    /\ pairs' = <<>>
    /\ citation_results' = <<>>
    /\ fact_results' = <<>>
    /\ calls' = <<>>
    /\ report' = NoReport
    /\ response' = NoResponse
    /\ UNCHANGED <<session, config, text, sentences, replay>>

Next ==
    \/ Extract
    \/ SkipCitations
    \/ VerifyDoi
    \/ VerifyUrl
    \/ VerifyAuthorYear
    \/ CrossRefFallback
    \/ VerifyIeee
    \/ SkipFacts
    \/ VerifyClaim
    \/ Respond
    \/ Finish

Spec == Init /\ [][Next]_vars

\* the same handler in a process started with any configuration
SpecSession == InitConfigured /\ [][Next]_vars

----------------------------------------------------------------------------
(* Two runs on the same item with the same external replies *)

\* verify_citation: the dispatch and the strategy it calls, for a citation
\* given with the replies its lookups get
verify_citation(i, script) ==
    CASE Strategy(script) = "doi" ->
            verify_doi(i, script.claim_text, script.doi)
      [] Strategy(script) = "url" ->
            verify_url(i, script.claim_text, script.head, script.get)
      [] Strategy(script) = "author_year" ->
            LET result == semantic_scholar_search(i, script.claim_text, script.search)
            IN  IF result = NoResult
                THEN crossref_search(i, script.claim_text, script.crossref)
                ELSE result
      [] Strategy(script) = "ieee" -> verify_ieee(i)
      [] OTHER -> CitationResult(i, FALSE, FALSE, 0, "unknown", "unknown_type")

NoDoiReply == [outcome |-> "error"]

NoGetReply == [outcome |-> "error", overlap |-> 0]

NoSearchReply == [outcome |-> "error", papers |-> <<>>]

\* a citation of a text with the toggle of the request and the replies of
\* the lookups its strategy makes (the replies of the others are never
\* asked for)
CitationScripts ==
    {s \in [kind : {"citation"}, enabled : BOOLEAN, citation_type : TypeSet,
            claim_text : {NoText, <<0, 1>>}, doi : DoiReplies,
            head : HeadReplies, get : GetReplies,
            search : SearchReplies, crossref : SearchReplies] :
        /\ (s.enabled /\ Strategy(s) = "doi") \/ s.doi = NoDoiReply
        /\ (s.enabled /\ Strategy(s) = "url") \/ s.head = "error"
        /\ (s.enabled /\ Strategy(s) = "url" /\ s.head = "ok") \/ s.get = NoGetReply
        /\ (s.enabled /\ Strategy(s) = "author_year") \/ s.search = NoSearchReply
        /\ \/ /\ s.enabled
              /\ Strategy(s) = "author_year"
              /\ semantic_scholar_search(1, s.claim_text, s.search) = NoResult
           \/ s.crossref = NoSearchReply}

\* a claim of a text with the toggle of the request, the replies of
\* Wikipedia and whether the classifier and the embedding model throw
ClaimScripts ==
    {s \in [kind : {"claim"}, enabled : BOOLEAN, summary : SummaryReplies,
            search : PageSearchReplies, nli_raises : BOOLEAN,
            encode_raises : BOOLEAN] :
        LET sources == retrieve_evidence(s.summary, s.search)
        IN  /\ s.enabled \/ s.summary = NoSearchReply
            /\ (s.enabled /\ s.summary.outcome # "ok") \/ s.search = NoSearchReply
            /\ (s.enabled /\ WithText(sources) # {}) \/ ~s.nli_raises
            /\ (s.enabled /\ sources # <<>>) \/ ~s.encode_raises}

\* the status the item ends the run with; "failed" when the handler raises
RunStatus(script) ==
    IF script.kind = "citation"
    THEN IF script.enabled
         THEN verify_citation(1, script).verification_status
         ELSE SkippedCitationResults(<<script>>)[1].verification_status
    ELSE IF ~script.enabled
         THEN SkippedFactResults(<<script>>)[1].verification_status
         ELSE IF script.encode_raises THEN "failed"
         ELSE verify_claim(1, retrieve_evidence(script.summary, script.search),
                           script.nli_raises).verification_status

\* a process about to run the pipeline twice on one item
InitReplay ==
    /\ pc = "replay"
    /\ request = NoRequest
    /\ claims = <<>>
    /\ citations = <<>>
    /\ pairs = <<>>
    /\ citation_results = <<>>
    /\ fact_results = <<>>
    /\ calls = <<>>
    /\ report = NoReport
    /\ response = NoResponse
    /\ session = NewSession
    /\ \E key_set \in BOOLEAN : config = Config(key_set)
    /\ text = <<>>
    /\ sentences = <<>>
    /\ \E script \in CitationScripts \cup ClaimScripts :
           replay = [script |-> script, runs |-> <<>>]

\* one run of the item: its status is kept together with the headers the
\* session had when the run began; an author-year lookup leaves the API key
\* on the session
Replay ==
    /\ pc = "replay"
    /\ Len(replay.runs) < 2
    /\ replay' = [replay EXCEPT !.runs =
                     Append(@, [status |-> RunStatus(replay.script),
                                headers |-> session.headers])]
    /\ session' = IF /\ replay.script.kind = "citation"
                     /\ replay.script.enabled
                     /\ Strategy(replay.script) = "author_year"
                  THEN WithApiKey(session, config)
                  ELSE session
    /\ UNCHANGED <<pc, request, claims, citations, pairs, citation_results,
                   fact_results, calls, report, response, config, text, sentences>>

\* between the two runs the process serves another request, whose
\* author-year lookup leaves the API key on the session
OtherRequest ==
    /\ pc = "replay"
    /\ session' = WithApiKey(session, config)
    /\ session' # session
    /\ UNCHANGED <<pc, request, claims, citations, pairs, citation_results,
                   fact_results, calls, report, response, config, text, sentences,
                   replay>>

NextReplay == Replay \/ OtherRequest

SpecReplay == InitReplay /\ [][NextReplay]_vars

----------------------------------------------------------------------------
(* scorer.py on its own: generate_report on the results steps 2 and 3 can *)
(* hand over, for longer lists than the request runs reach                *)

\* the i-th sentence of the text
ScoredClaim(i) == Claim(100 * (i - 1), 100 * i)

\* the k-th citation match: a URL or a DOI, 100 characters after the last
ScoredCitation(t, k) == Citation(t, "a", 150 + 100 * (k - 1))

ScoredCitationLists ==
    {cits \in UNION {[1..n -> {ScoredCitation(t, k) :
                                  t \in {"url", "doi"}, k \in 1..MaxScoredCitations}] :
                     n \in 0..MaxScoredCitations} :
        /\ \A k \in 1..Len(cits) : cits[k] = ScoredCitation(cits[k].citation_type, k)
        /\ ExtractionOrdered(cits)}

\* what the lookup of a citation comes to: an exception, a status other than
\* 200, a record or page with keyword overlap 0.0, one with overlap 0.51
LookupKinds == {"error", "bad_status", "low", "high"}

LookupOverlap(kind) == IF kind = "high" THEN 51 ELSE 0

\* verify_citation for citation i when its lookup comes to `kind`
CitationResultFor(i, cits, claim_text, kind) ==
    IF Strategy(cits[i]) = "doi"
    THEN verify_doi(i, claim_text,
                    IF kind \in {"error", "bad_status"} THEN [outcome |-> kind]
                    ELSE [outcome |-> "ok",
                          paper |-> [kind |-> "record", overlap |-> LookupOverlap(kind)]])
    ELSE verify_url(i, claim_text,
                    IF kind \in {"error", "bad_status"} THEN kind ELSE "ok",
                    [outcome |-> "ok", overlap |-> LookupOverlap(kind)])

\* the evidence retrieved for a claim: none, or one page that is similar by
\* 0.7 or by 0.9, or similar by 0.9 and contradicting
EvidenceKinds ==
    {<<>>,
     <<[has_text |-> TRUE, contradicts |-> FALSE, similarity |-> 70]>>,
     <<[has_text |-> TRUE, contradicts |-> FALSE, similarity |-> 90]>>,
     <<[has_text |-> TRUE, contradicts |-> TRUE, similarity |-> 90]>>}

\* verify_text at step 4, with the locals steps 1 to 3 have built
InitScorer ==
    /\ pc = "report"
    /\ \E n \in 0..MaxScoredClaims, cits \in ScoredCitationLists, vc, vf \in BOOLEAN :
        LET cls == [i \in 1..n |-> ScoredClaim(i)]
            prs == pair_claims_with_citations(cls, cits)
        IN  /\ request = [verify_citations |-> vc, verify_facts |-> vf]
            /\ claims = cls
            /\ citations = cits
            /\ pairs = prs
            /\ IF vc /\ cits # <<>>
               THEN \E kinds \in [1..Len(cits) -> LookupKinds] :
                        citation_results =
                            [i \in 1..Len(cits) |->
                                CitationResultFor(i, cits,
                                    ClaimTextFor(cits[i].text, prs, cits, cls),
                                    kinds[i])]
               ELSE citation_results = SkippedCitationResults(cits)
            /\ IF vf /\ cls # <<>>
               THEN \E evidence \in [1..n -> EvidenceKinds] :
                        fact_results =
                            [i \in 1..n |-> verify_claim(i, evidence[i], FALSE)]
               ELSE fact_results = SkippedFactResults(cls)
    /\ calls = <<>>
    /\ report = NoReport
    /\ response = NoResponse
    /\ session = NewSession
    /\ config = Config(FALSE)
    /\ text = <<>>
    /\ sentences = <<>>
    /\ replay = NoReplay

NextScorer == Respond \/ Finish

SpecScorer == InitScorer /\ [][NextScorer]_vars

----------------------------------------------------------------------------
(* Pairing: claims C5, C6, C7 *)

\* the citation minimizing the distance to the claim's end, the earliest in
\* scan order among equals; 0 when there is no citation
NearestCitation(claim, cits) ==
    IF cits = <<>> THEN 0
    ELSE CHOOSE k \in 1..Len(cits) :
            \A j \in 1..Len(cits) :
                /\ Distance(cits[k], claim) <= Distance(cits[j], claim)
                /\ j < k => Distance(cits[k], claim) < Distance(cits[j], claim)

Within(k, claim, cits) == k # 0 /\ Distance(cits[k], claim) < 200

\* C5: one pair per claim, in claim order; the pair carries the nearest
\* citation (earliest in scan order on a tie) if its distance is below 200,
\* and no citation otherwise.
C5_NearestWins ==
    /\ Len(pairs) = Len(claims)
    /\ \A i \in 1..Len(pairs) :
        LET k == NearestCitation(claims[i], citations)
        IN  /\ pairs[i].claim = i
            /\ pairs[i].citation = IF Within(k, claims[i], citations) THEN k ELSE 0

\* a tie between two citations, won by the first in scan order although it
\* stands later in the text, next to a claim left unpaired at distance >= 200
C5_Witness ==
    /\ Len(citations) = 2
    /\ citations[1].start_pos > citations[2].start_pos
    /\ \E i, j \in 1..Len(pairs) :
        /\ Distance(citations[1], claims[i]) = Distance(citations[2], claims[i])
        /\ pairs[i].citation = 1
        /\ pairs[j].citation = 0

\* C6 as stated: no two pairs for different claims carry the same citation.
C6_CitationExclusive ==
    \A i, j \in 1..Len(pairs) :
        (i # j /\ pairs[i].citation # 0) => pairs[i].citation # pairs[j].citation

\* C6 amended: every claim is paired on its own; a citation is carried by the
\* pair of every claim for which it is the nearest citation within 200, so
\* sharing a citation is neither prevented nor resolved.
C6_IndependentPairing ==
    \A i, j \in 1..Len(pairs) : \A k \in 1..Len(citations) :
        ( /\ i # j
          /\ NearestCitation(claims[i], citations) = k
          /\ NearestCitation(claims[j], citations) = k
          /\ Within(k, claims[i], citations)
          /\ Within(k, claims[j], citations) )
        => (pairs[i].citation = k /\ pairs[j].citation = k)

C6_Witness ==
    \E i, j \in 1..Len(pairs) :
        /\ i # j
        /\ claims[i] # claims[j]
        /\ pairs[i].citation # 0
        /\ pairs[i].citation = pairs[j].citation

\* comparison of two rationals with positive denominators
RatLess(a, b) == a.num * b.den < b.num * a.den

PairDistance(i) == Distance(citations[pairs[i].citation], claims[i])

\* C7: a paired claim scores 1 / (1 + distance/100): 1.0 at distance 0,
\* strictly decreasing in the distance, within (1/3, 1]; a claim whose
\* nearest citation is at distance >= 200, or that has none, scores 0.0 and
\* carries no citation.
C7_ProximityScore ==
    \A i \in 1..Len(pairs) :
        LET s == pairs[i].proximity_score
            k == NearestCitation(claims[i], citations)
        IN  /\ pairs[i].citation # 0 =>
                /\ s.num * (100 + PairDistance(i)) = 100 * s.den
                /\ PairDistance(i) = 0 => s.num = s.den
                /\ RatLess([num |-> 1, den |-> 3], s)
                /\ ~RatLess([num |-> 1, den |-> 1], s)
                /\ \A j \in 1..Len(pairs) :
                    (pairs[j].citation # 0 /\ PairDistance(i) < PairDistance(j))
                    => RatLess(pairs[j].proximity_score, s)
            /\ (k = 0 \/ ~Within(k, claims[i], citations)) =>
                (pairs[i].citation = 0 /\ s.num = 0)

\* one claim paired at distance 0, one paired farther away
C7_Witness ==
    \E i, j \in 1..Len(pairs) :
        /\ pairs[i].citation # 0 /\ PairDistance(i) = 0
        /\ pairs[i].proximity_score.num = pairs[i].proximity_score.den
        /\ pairs[j].citation # 0 /\ PairDistance(j) = 199

----------------------------------------------------------------------------
(* Verification: claims C1, C2, C3, C4, C8, C9, C10 *)

BothDisabled == ~request.verify_citations /\ ~request.verify_facts

\* C1: with both verifications disabled every citation result and every
\* fact result has status unknown, the report has no Issue, and the
\* unverified, fake and contradicted counters are 0.
C1_DisabledNoIssues ==
    (pc = "done" /\ BothDisabled) =>
        /\ \A k \in 1..Len(citation_results) :
               citation_results[k].verification_status = "unknown"
        /\ \A k \in 1..Len(fact_results) :
               fact_results[k].verification_status = "unknown"
        /\ report.issues = <<>>
        /\ report.unverified_claims = 0
        /\ report.fake_citations = 0
        /\ report.contradicted_claims = 0

\* the citation verified last, while `calls` still holds its calls
LastCitation == Len(citation_results)

JustVerifiedCitation ==
    /\ CitationsEnabled
    /\ pc \in {"citations", "facts"}
    /\ fact_results = <<>>
    /\ LastCitation >= 1

\* a backing source returned a record of the citation (a page, for a URL)
Found(cs) ==
    \E k \in 1..Len(cs) :
        \/ cs[k].outcome = "found"
        \/ cs[k].endpoint = "head" /\ cs[k].outcome = "ok"

RelevanceThreshold(t) == IF t = "url" THEN 30 ELSE 50

\* C2: a verified doi, url, apa or mla citation is fake exactly when no
\* backing source returned it; when one did, it is irrelevant if its
\* relevance is at most 0.5 (0.3 for a URL) and verified otherwise.
C2_StatusByLookup ==
    (JustVerifiedCitation
        /\ citations[LastCitation].citation_type \in {"doi", "url", "apa", "mla"}) =>
        LET r == citation_results[LastCitation]
            t == citations[LastCitation].citation_type
        IN  /\ r.verification_status = "fake" <=> ~Found(calls)
            /\ Found(calls) =>
                   r.verification_status =
                       IF r.relevance_score <= RelevanceThreshold(t)
                       THEN "irrelevant" ELSE "verified"

Failed(call) == call.outcome \in {"error", "bad_status", "not_ok"}

\* every citation of the batch has its result once the batch is over
BatchComplete ==
    pc \in {"facts", "report", "done", "failed"} =>
        /\ Len(citation_results) = Len(citations)
        /\ \A k \in 1..Len(citations) : citation_results[k].citation = k

Deciding(call) == call.endpoint \in {"crossref_works", "head", "crossref_search"}

C4_NeverRaised ==
    (\E k \in 1..Len(calls) : calls[k].kind = "claim" /\ Failed(calls[k])) =>
        (pc # "failed" /\ response.outcome # "error")

\* C8: a verified claim is contradicted if its contradiction flag is set,
\* whatever its evidence score; otherwise supported above 0.7, weak above
\* 0.4, and no_evidence at or below 0.4.
C8_FactStatus ==
    FactsEnabled =>
        \A k \in 1..Len(fact_results) :
            LET r == fact_results[k]
            IN  r.verification_status =
                    IF r.contradiction THEN "contradicted"
                    ELSE IF r.evidence_score > 70 * Hundredth THEN "supported"
                    ELSE IF r.evidence_score > 40 * Hundredth THEN "weak"
                    ELSE "no_evidence"

\* a contradicted claim with evidence score 0.9, after a supported one
C8_Witness ==
    /\ FactsEnabled
    /\ Len(fact_results) = 2
    /\ fact_results[1].verification_status = "supported"
    /\ fact_results[2].contradiction
    /\ fact_results[2].evidence_score = 90 * Hundredth
    /\ fact_results[2].verification_status = "contradicted"

SameCitationScores(a, b) ==
    /\ a.exists = b.exists
    /\ a.accessible = b.accessible
    /\ a.relevance_score = b.relevance_score

SameFactScores(a, b) ==
    /\ a.supported = b.supported
    /\ a.contradiction = b.contradiction
    /\ a.evidence_score = b.evidence_score

\* C9 as stated: results with equal flags and scores have equal status.
C9_StatusByScores ==
    /\ \A i, j \in 1..Len(citation_results) :
           SameCitationScores(citation_results[i], citation_results[j])
               => citation_results[i].verification_status
                      = citation_results[j].verification_status
    /\ \A i, j \in 1..Len(fact_results) :
           SameFactScores(fact_results[i], fact_results[j])
               => fact_results[i].verification_status
                      = fact_results[j].verification_status

\* C9 amended: among the results of one request, two results for citations
\* of the same type with equal flags and relevance have equal status, and
\* two fact results with equal flags and evidence score have equal status.
C9_StatusByTypeAndScores ==
    /\ \A i, j \in 1..Len(citation_results) :
           ( /\ citations[i].citation_type = citations[j].citation_type
             /\ SameCitationScores(citation_results[i], citation_results[j]) )
               => citation_results[i].verification_status
                      = citation_results[j].verification_status
    /\ \A i, j \in 1..Len(fact_results) :
           SameFactScores(fact_results[i], fact_results[j])
               => fact_results[i].verification_status
                      = fact_results[j].verification_status

\* two citations of one type matched with the same relevance by different
\* sources
C9_Witness ==
    /\ CitationsEnabled
    /\ Len(citation_results) = 2
    /\ citations[1].citation_type = citations[2].citation_type
    /\ citation_results[1].details = "semantic_scholar"
    /\ citation_results[2].details = "crossref"
    /\ SameCitationScores(citation_results[1], citation_results[2])

EndpointsOf(t) ==
    CASE t = "doi" -> {"crossref_works"}
      [] t = "url" -> {"head", "get"}
      [] t \in {"apa", "mla"} -> {"semantic_scholar", "crossref_search"}
      [] OTHER -> {}

FirstEndpoint(t) ==
    CASE t = "doi" -> "crossref_works"
      [] t = "url" -> "head"
      [] OTHER -> "semantic_scholar"

\* C10: the type tag alone selects the strategy: the calls made for a doi
\* citation go to the DOI lookup, for a url to the reachability check, for
\* apa and mla to the author-year search; an ieee citation gets status
\* unknown with the explanatory detail and no call is made for it.
C10_DispatchByType ==
    CitationsEnabled =>
        /\ \A k \in 1..Len(calls) :
               calls[k].kind = "citation" =>
                   calls[k].endpoint
                       \in EndpointsOf(citations[calls[k].item].citation_type)
        /\ \A k \in 1..Len(citation_results) :
               citations[k].citation_type = "ieee" =>
                   /\ citation_results[k].verification_status = "unknown"
                   /\ citation_results[k].details = "ieee_needs_reference_list"
        /\ JustVerifiedCitation =>
               IF citations[LastCitation].citation_type = "ieee"
               THEN calls = <<>>
               ELSE /\ calls # <<>>
                    /\ calls[1].item = LastCitation
                    /\ calls[1].endpoint
                           = FirstEndpoint(citations[LastCitation].citation_type)

\* a numbered citation left unknown without a call, then a DOI looked up
C10_Witness ==
    /\ JustVerifiedCitation
    /\ LastCitation = 2
    /\ citations[1].citation_type = "ieee"
    /\ citation_results[1].verification_status = "unknown"
    /\ citations[2].citation_type = "doi"
    /\ calls[1].endpoint = "crossref_works"

----------------------------------------------------------------------------
(* Skipped verification: claim C11 *)

\* C11: with citation verification disabled every extracted citation has
\* exactly one result, with status unknown and the detail that verification
\* was skipped; with fact verification disabled every extracted claim has
\* exactly one result, with status unknown.
C11_SkippedResults ==
    /\ (pc \in {"facts", "report", "done", "failed"} /\ ~request.verify_citations) =>
           /\ Len(citation_results) = Len(citations)
           /\ \A k \in 1..Len(citations) :
                  /\ citation_results[k].citation = k
                  /\ citation_results[k].verification_status = "unknown"
                  /\ citation_results[k].details = "skipped"
    /\ (pc \in {"report", "done"} /\ ~request.verify_facts) =>
           /\ Len(fact_results) = Len(claims)
           /\ \A k \in 1..Len(claims) :
                  /\ fact_results[k].claim = k
                  /\ fact_results[k].verification_status = "unknown"
    /\ (pc = "done" /\ ~request.verify_citations) =>
           \A k \in 1..Len(citations) :
               report.detailed_results.citation_verifications[k].status = "unknown"
    /\ (pc = "done" /\ ~request.verify_facts) =>
           \A k \in 1..Len(claims) :
               report.detailed_results.fact_verifications[k].status = "unknown"

\* a text with a citation and a claim, analysed with both steps disabled
C11_Witness ==
    /\ pc = "done"
    /\ BothDisabled
    /\ Len(citations) = 1
    /\ Len(claims) = 1
    /\ citation_results[1].details = "skipped"
    /\ fact_results[1].verification_status = "unknown"

----------------------------------------------------------------------------
(* Report: claims C12, C13, C14, C15 *)

\* C12: in every report verified_claims counts the fact results with status
\* supported, fake_citations the citation results with status fake,
\* broken_links the results of URL citations that are not accessible,
\* unverified_claims the fact results with status no_evidence or weak, and
\* contradicted_claims the fact results with the contradiction flag.
C12_Counters ==
    report.built =>
        /\ report.verified_claims =
               Cardinality({k \in 1..Len(fact_results) :
                               fact_results[k].verification_status = "supported"})
        /\ report.fake_citations =
               Cardinality({k \in 1..Len(citation_results) :
                               citation_results[k].verification_status = "fake"})
        /\ report.broken_links =
               Cardinality({k \in 1..Len(citation_results) :
                               /\ citations[k].citation_type = "url"
                               /\ ~citation_results[k].accessible})
        /\ report.unverified_claims =
               Cardinality({k \in 1..Len(fact_results) :
                               fact_results[k].verification_status
                                   \in {"no_evidence", "weak"}})
        /\ report.contradicted_claims =
               Cardinality({k \in 1..Len(fact_results) : fact_results[k].contradiction})

\* a fake DOI next to an unreachable URL (fake and a broken link at once),
\* with a supported and a contradicted claim
C12_Witness ==
    /\ report.built
    /\ report.fake_citations = 2
    /\ report.broken_links = 1
    /\ report.verified_claims = 1
    /\ report.contradicted_claims = 1
    /\ report.unverified_claims = 0

\* the weighted sum of the counters of the report, times 100
WeightedCounters ==
    10 * (4 * report.unverified_claims + 4 * report.fake_citations
          + 2 * report.broken_links + 3 * report.contradicted_claims)

\* C13: for total_claims > 0 the risk score is
\* min(100, (0.4 unverified + 0.4 fake + 0.2 broken + 0.3 contradicted)
\* * 100 / total_claims), every ratio taken against the number of claims,
\* and lies in [0, 100] also when fake citations or broken links outnumber
\* the claims.
C13_RiskScore ==
    (report.built /\ report.total_claims > 0) =>
        LET score == report.risk_score
        IN  /\ score.den > 0
            /\ 0 <= score.num
            /\ score.num <= 100 * score.den
            /\ IF WeightedCounters >= 100 * report.total_claims
               THEN score.num = 100 * score.den
               ELSE score.num * report.total_claims = WeightedCounters * score.den

\* more fake citations than claims: the sum is 120 and the score 100
C13_Witness ==
    /\ report.built
    /\ report.total_claims = 1
    /\ report.fake_citations = 3
    /\ report.broken_links = 0
    /\ report.unverified_claims = 0
    /\ report.contradicted_claims = 0
    /\ report.risk_score.num = 100 * report.risk_score.den

\* C14: without claims the risk score is 0 and the risk tag low, whatever
\* the citation results are.
C14_NoClaims ==
    (report.built /\ report.total_claims = 0) =>
        /\ report.risk_score.num = 0
        /\ report.overall_risk = "low"

\* no claim, and every citation a fake, unreachable URL
C14_Witness ==
    /\ report.built
    /\ report.total_claims = 0
    /\ report.total_citations = 3
    /\ report.fake_citations = 3
    /\ report.broken_links = 3
    /\ report.overall_risk = "low"

\* C15: the tag is low exactly when the score is at most 30, medium exactly
\* when it is above 30 and at most 60, high exactly when it is above 60.
C15_RiskTag ==
    report.built =>
        LET score == report.risk_score
        IN  /\ report.overall_risk = "low" <=> score.num <= 30 * score.den
            /\ report.overall_risk = "medium" <=>
                   (30 * score.den < score.num /\ score.num <= 60 * score.den)
            /\ report.overall_risk = "high" <=> 60 * score.den < score.num

\* a score of exactly 60 (one claim, one fake and unreachable URL)
C15_Witness ==
    /\ report.built
    /\ report.total_claims = 1
    /\ report.risk_score.num = 60 * report.risk_score.den
    /\ report.overall_risk = "medium"

----------------------------------------------------------------------------
(* Issues: claims C16, C17, C18 *)

\* positions in the report's issue list of the issues about one item
IssuesAbout(kind, item) ==
    {j \in 1..Len(report.issues) :
        report.issues[j].kind = kind /\ report.issues[j].item = item}

\* exactly one issue about the item, of this type and severity
OneIssue(kind, item, type, severity) ==
    /\ Cardinality(IssuesAbout(kind, item)) = 1
    /\ \A j \in IssuesAbout(kind, item) :
           /\ report.issues[j].type = type
           /\ report.issues[j].severity = severity

\* C16: a citation result yields at most one Issue: fake_citation (high) if
\* its status is fake, else irrelevant_citation (medium) if its status is
\* irrelevant, else broken_link (medium) if it is a URL that is not
\* accessible, and none otherwise.
C16_CitationIssue ==
    report.built =>
        \A k \in 1..Len(citation_results) :
            LET r == citation_results[k]
            IN  IF r.verification_status = "fake"
                THEN OneIssue("citation", k, "fake_citation", "high")
                ELSE IF r.verification_status = "irrelevant"
                THEN OneIssue("citation", k, "irrelevant_citation", "medium")
                ELSE IF citations[k].citation_type = "url" /\ ~r.accessible
                THEN OneIssue("citation", k, "broken_link", "medium")
                ELSE IssuesAbout("citation", k) = {}

\* an unreachable URL, an irrelevant DOI and a DOI that is not found: the
\* URL is fake before it is a broken link
C16_Witness ==
    /\ report.built
    /\ Len(citation_results) = 3
    /\ citations[1].citation_type = "url"
    /\ citation_results[1].verification_status = "fake"
    /\ ~citation_results[1].accessible
    /\ citation_results[2].verification_status = "irrelevant"
    /\ citations[3].citation_type = "doi"
    /\ citation_results[3].details = "doi_not_found"
    /\ Len(report.issues) = 3
    /\ report.issues[1].type = "fake_citation"
    /\ report.issues[3].type = "fake_citation"
    /\ report.issues[3].severity = "high"

\* C17: a fact result yields at most one Issue: contradicted_claim (high) if
\* its contradiction flag is set, whatever its evidence score, else
\* unverified_claim (medium) if its status is no_evidence, else
\* weak_evidence (low) if its status is weak, and none otherwise.
C17_FactIssue ==
    report.built =>
        \A k \in 1..Len(fact_results) :
            LET r == fact_results[k]
            IN  IF r.contradiction
                THEN OneIssue("claim", k, "contradicted_claim", "high")
                ELSE IF r.verification_status = "no_evidence"
                THEN OneIssue("claim", k, "unverified_claim", "medium")
                ELSE IF r.verification_status = "weak"
                THEN OneIssue("claim", k, "weak_evidence", "low")
                ELSE IssuesAbout("claim", k) = {}

\* a claim contradicted at evidence score 0.9, after a weakly supported one
C17_Witness ==
    /\ report.built
    /\ Len(fact_results) = 2
    /\ fact_results[1].verification_status = "weak"
    /\ fact_results[2].contradiction
    /\ fact_results[2].evidence_score = 90 * Hundredth
    /\ fact_results[2].verification_status = "contradicted"
    /\ \E j \in IssuesAbout("claim", 2) : report.issues[j].type = "contradicted_claim"

\* C18: the report has at most as many Issues as there are citation results
\* and fact results together, whatever the two toggles are.
C18_IssueCount ==
    report.built =>
        Len(report.issues) <= Len(citation_results) + Len(fact_results)

\* every result of a request with citations and claims yields its issue
C18_Witness ==
    /\ report.built
    /\ Len(citation_results) = 3
    /\ Len(fact_results) = 2
    /\ Len(report.issues) = 5
    /\ ~request.verify_citations

----------------------------------------------------------------------------
(* The reply: claim C19 *)

ReportFields ==
    {"built", "overall_risk", "risk_score", "total_claims", "total_citations",
     "verified_claims", "fake_citations", "unverified_claims",
     "contradicted_claims", "broken_links", "issues", "detailed_results"}

\* a report with its tag, score, counters, issues and a detailed result for
\* every citation and every claim of the request
CompleteReport(body) ==
    /\ DOMAIN body = ReportFields
    /\ body.built
    /\ body.overall_risk \in {"low", "medium", "high"}
    /\ body.total_claims = Len(claims)
    /\ body.total_citations = Len(citations)
    /\ Len(body.detailed_results.citation_verifications) = Len(citations)
    /\ Len(body.detailed_results.fact_verifications) = Len(claims)

\* C19: a request is resolved either with a complete report or with one
\* failure signal; nothing is sent before, and a failure carries no part of
\* a report.
C19_AllOrNothing ==
    /\ pc \notin {"done", "failed"} => response = NoResponse
    /\ pc = "done" =>
           /\ DOMAIN response = {"outcome", "status", "body"}
           /\ response.outcome = "report"
           /\ CompleteReport(response.body)
    /\ pc = "failed" =>
           /\ DOMAIN response = {"outcome", "status"}
           /\ response.outcome = "error"
           /\ report = NoReport

\* a request that fails at its claim after its citation was verified
C19_Witness ==
    /\ pc = "failed"
    /\ response.outcome = "error"
    /\ Len(citation_results) = 1
    /\ citation_results[1].verification_status = "verified"

----------------------------------------------------------------------------
(* Shared state of the process: claim C20 *)

\* C20: no step of an analysis request changes the state shared between
\* requests: the verifier's session (its headers included) and the
\* configuration stay as they were before the request.
C20_SharedStateUnchanged == [][session' = session /\ config' = config]_vars

----------------------------------------------------------------------------
(* Unreachable URLs: claim C25 *)

\* C25: a report made with citation verification enabled has no broken_link
\* Issue: every URL result that is not accessible is fake, yields a
\* fake_citation Issue and counts in fake_citations and in broken_links; a
\* broken_link Issue only comes from a result with status unknown.
C25_BrokenLinkOnlyWhenSkipped ==
    report.built =>
        /\ request.verify_citations =>
               /\ \A j \in 1..Len(report.issues) : report.issues[j].type # "broken_link"
               /\ \A k \in 1..Len(citation_results) :
                      (citations[k].citation_type = "url"
                           /\ ~citation_results[k].accessible) =>
                          /\ citation_results[k].verification_status = "fake"
                          /\ OneIssue("citation", k, "fake_citation", "high")
               /\ report.broken_links <= report.fake_citations
        /\ \A j \in 1..Len(report.issues) :
               report.issues[j].type = "broken_link" =>
                   citation_results[report.issues[j].item].verification_status = "unknown"

\* a URL answering 404, verified: one fake_citation Issue, counted twice
C25_Witness ==
    /\ report.built
    /\ request.verify_citations
    /\ Len(citation_results) = 1
    /\ citations[1].citation_type = "url"
    /\ citation_results[1].details = "url_not_accessible"
    /\ report.fake_citations = 1
    /\ report.broken_links = 1
    /\ Len(report.issues) = 1
    /\ report.issues[1].type = "fake_citation"

----------------------------------------------------------------------------
(* Citations without a claim: claim C26 *)

\* the raw text of citation k is the text of no citation paired with a claim
Unpaired(k) == ClaimTextFor(citations[k].text, pairs, citations, claims) = NoText

\* C26: a verified doi, apa or mla citation whose raw text is not the text
\* of a citation paired with a claim has relevance exactly 0.5 whenever a
\* record is found for it, and its status is irrelevant or fake, never
\* verified.
C26_UnpairedNeverVerified ==
    CitationsEnabled =>
        \A k \in 1..Len(citation_results) :
            (citations[k].citation_type \in {"doi", "apa", "mla"} /\ Unpaired(k)) =>
                /\ citation_results[k].verification_status \in {"irrelevant", "fake"}
                /\ citation_results[k].exists =>
                       /\ citation_results[k].relevance_score = 50
                       /\ citation_results[k].verification_status = "irrelevant"

\* a DOI far from the only claim, and an author-year citation matched by
\* CrossRef after Semantic Scholar had nothing: both found, both irrelevant
C26_Witness ==
    /\ CitationsEnabled
    /\ Len(citation_results) = 2
    /\ Unpaired(1) /\ Unpaired(2)
    /\ citations[1].citation_type \in {"apa", "mla"}
    /\ citation_results[1].details = "crossref"
    /\ citation_results[1].relevance_score = 50
    /\ citations[2].citation_type = "doi"
    /\ citation_results[2].details = "crossref"
    /\ citation_results[2].verification_status = "irrelevant"

----------------------------------------------------------------------------
(* Shape of the report: claims C28, C29, C30 *)

\* C28: a returned report has exactly total_citations citation results and
\* total_claims fact results, whatever the toggles are, and its i-th result
\* is the result of the i-th extracted citation (claim).
C28_ResultsFollowExtraction ==
    pc = "done" =>
        LET body == response.body
            cv == body.detailed_results.citation_verifications
            fv == body.detailed_results.fact_verifications
        IN  /\ body.total_citations = Len(citations)
            /\ body.total_claims = Len(claims)
            /\ Len(cv) = body.total_citations
            /\ Len(fv) = body.total_claims
            /\ Len(citation_results) = Len(citations)
            /\ Len(fact_results) = Len(claims)
            /\ \A k \in 1..Len(cv) :
                   /\ citation_results[k].citation = k
                   /\ cv[k].citation = citations[k].text
                   /\ cv[k].status = citation_results[k].verification_status
            /\ \A k \in 1..Len(fv) :
                   /\ fact_results[k].claim = k
                   /\ fv[k].claim = claims[k]
                   /\ fv[k].status = fact_results[k].verification_status

\* two different claims reported in text order with fact verification off
C28_Witness ==
    /\ pc = "done"
    /\ ~request.verify_facts
    /\ Len(claims) = 2
    /\ claims[1] # claims[2]
    /\ response.body.detailed_results.fact_verifications[2].claim = claims[2]

\* C29: the three fact counters count disjoint sets of claims: verified +
\* unverified + contradicted <= total_claims, with equality when fact
\* verification is enabled and with all three 0 when it is disabled.
C29_FactCountersPartition ==
    pc = "done" =>
        LET body == response.body
            sum == body.verified_claims + body.unverified_claims
                       + body.contradicted_claims
        IN  /\ sum <= body.total_claims
            /\ request.verify_facts => sum = body.total_claims
            /\ ~request.verify_facts =>
                   /\ body.verified_claims = 0
                   /\ body.unverified_claims = 0
                   /\ body.contradicted_claims = 0
            /\ \A k \in 1..Len(fact_results) :
                   LET r == fact_results[k]
                   IN  /\ ~(r.verification_status = "supported" /\ r.contradiction)
                       /\ ~(r.verification_status \in {"no_evidence", "weak"}
                                /\ r.contradiction)

\* a contradicted claim with a high evidence score next to an unverified one
C29_Witness ==
    /\ pc = "done"
    /\ request.verify_facts
    /\ response.body.total_claims = 2
    /\ response.body.contradicted_claims = 1
    /\ response.body.unverified_claims = 1
    /\ \E k \in 1..2 : /\ fact_results[k].contradiction
                         /\ fact_results[k].evidence_score > 70 * Hundredth

\* C30: in the issue list every Issue of a citation result precedes every
\* Issue of a fact result, the Issues of each group follow the order of
\* their results, and the response lists the Issues in the same order.
C30_IssueOrder ==
    report.built =>
        /\ \A i, j \in 1..Len(report.issues) :
               i < j =>
                   /\ report.issues[i].kind = "claim" => report.issues[j].kind = "claim"
                   /\ report.issues[i].kind = report.issues[j].kind =>
                          report.issues[i].item < report.issues[j].item
        /\ pc = "done" => response.body.issues = report.issues

\* issues of two citations followed by issues of two claims
C30_Witness ==
    /\ pc = "done"
    /\ Len(response.body.issues) = 4
    /\ response.body.issues[1].kind = "citation"
    /\ response.body.issues[2].kind = "citation"
    /\ response.body.issues[2].item = 3
    /\ response.body.issues[3].kind = "claim"
    /\ response.body.issues[4].kind = "claim"

----------------------------------------------------------------------------
(* The API key on the wire: claim C27 *)

\* C27: the Semantic Scholar API key is sent to the Semantic Scholar
\* endpoint only: no call to CrossRef and no HEAD or GET of a cited URL
\* carries the x-api-key header.
C27_KeyOnlyToSemanticScholar ==
    \A k \in 1..Len(calls) :
        "x-api-key" \in calls[k].headers => calls[k].endpoint = "semantic_scholar"

----------------------------------------------------------------------------
(* C21: two runs of the pipeline on the same input with the same external
   replies give every citation and every claim the same status, whatever
   the process did in between *)

----------------------------------------------------------------------------
(* C22: every extracted Claim has a span 0 <= start_pos <= end_pos <=
   len(text) with text[start_pos:end_pos] equal to its sentence, for every
   sentence the tokenizer can return *)

\* text[start:end] = sentence
SliceIs(t, start, end, sentence) ==
    \E i \in 1..(Len(t) + 1) :
        /\ CharLen(SubSeq(t, 1, i - 1)) = start
        /\ i + Len(sentence) - 1 <= Len(t)
        /\ SubSeq(t, i, i + Len(sentence) - 1) = sentence
        /\ start + CharLen(sentence) = end

----------------------------------------------------------------------------
(* C23: a sentence becomes a Claim exactly when it matches a factual
   indicator or has a named entity; the Claims follow the order of the
   sentences, one per qualifying sentence, with confidence 0.7 when both
   checks pass and 0.5 otherwise *)

Qualifies(k) == IsFactual(sentences[k].sentence) \/ sentences[k].has_entities

\* the number of qualifying sentences among the first k
QualifyingUpTo(k) == Cardinality({j \in 1..k : Qualifies(j)})

C23_ClaimPerQualifyingSentence ==
    pc = "analyzed" =>
        /\ Len(claims) = QualifyingUpTo(Len(sentences))
        /\ \A k \in 1..Len(sentences) :
               Qualifies(k) =>
                   /\ claims[QualifyingUpTo(k)].text = sentences[k].sentence
                   /\ claims[QualifyingUpTo(k)].confidence =
                          IF IsFactual(sentences[k].sentence) /\ sentences[k].has_entities
                          THEN 70 ELSE 50

\* of two sentences the first does not qualify and the second passes both
\* checks
C23_Witness ==
    /\ pc = "analyzed"
    /\ Len(sentences) = 2
    /\ Len(claims) = 1
    /\ ~Qualifies(1)
    /\ claims[1].text = sentences[2].sentence
    /\ claims[1].confidence = 70

----------------------------------------------------------------------------
(* C24: every apa and every mla citation starts with a capitalized surname,
   an upper-case letter followed by lower-case letters *)

C24_CapitalizedSurname ==
    pc = "analyzed" =>
        \A k \in 1..Len(citations) :
            citations[k].citation_type \in {"apa", "mla"} =>
                LET matched == citations[k].text[2]
                IN  /\ Len(matched) >= 2
                    /\ matched[1] = "S"
                    /\ matched[2] = "m"

====
